---- MODULE Spec2Model ----
(***************************************************************************)
(* YALF: the DeferredSink (YALF_DeferredSink.h) with its producer threads, *)
(* worker thread and destructor, and the Filter / Logger of YALF.h.        *)
(***************************************************************************)
EXTENDS Integers, Sequences, FiniteSets, TLC

(* ------------------------------ bounds --------------------------------- *)
\* total number of DeferredSink::log calls made by the producer threads
MaxLogCalls == 3

\* caller threads of DeferredSink::log
Producers == {"p1", "p2"}

(* ---------------------------- LogLevel --------------------------------- *)
\* enum class LogLevel, in declaration order
LogLevel == <<"Fatal", "Critical", "Error", "Warning", "Info", "Debug", "Noise">>

Levels == {LogLevel[i] : i \in 1..Len(LogLevel)}

\* the enumerators' underlying values: Fatal is 0, each next one more
Underlying == [l \in Levels |-> (CHOOSE i \in 1..Len(LogLevel) : LogLevel[i] = l) - 1]

LevelValue(l) == Underlying[l]

(* ------------------------------ Filter --------------------------------- *)
\* domains that are given overrides, and the domains entries are tagged with
Domains == {"net", "db"}
EntryDomains == Domains \cup {"ui"}

\* the levels passed to setDefaultLogLevel and setDomainLogLevel
SetLevels == {"Error", "Debug"}

\* where log calls are made as well: the domain given overrides, and the
\* levels of the entries
CallSetDomains == {"net"}
CallLevels == {"Error", "Warning", "Debug", "Noise"}

\* std::unordered_map, as the set of its <<key, value>> elements
MapFind(m, k) == {p \in m : p[1] = k}

\* m[k] = v (MapAssignKeepFirst: an insertion that keeps a present key's value)
MapAssignKeepFirst(m, k, v) == IF MapFind(m, k) # {} THEN m ELSE m \cup {<<k, v>>}
MapAssign(m, k, v) == {p \in m : p[1] # k} \cup {<<k, v>>}

\* m.emplace(k, v): no effect when the key is present
MapEmplace(m, k, v) == IF MapFind(m, k) # {} THEN m ELSE m \cup {<<k, v>>}

\* m.erase(k)
MapErase(m, k) == {p \in m : p[1] # k}

\* Filter's member initializers
NewFilter == [default_level |-> "Info", domains |-> {}]

\* Filter::checkFilter (checkFilterStrict: with < for <=; checkFilterReversed:
\* with the comparison turned round)
checkFilterStrict(f, e) ==
    LET it == MapFind(f.domains, e.domain) IN
    IF it # {}
    THEN LevelValue(e.level) < LevelValue((CHOOSE p \in it : TRUE)[2])
    ELSE LevelValue(e.level) < LevelValue(f.default_level)
checkFilterReversed(f, e) ==
    LET it == MapFind(f.domains, e.domain) IN
    IF it # {}
    THEN LevelValue(e.level) >= LevelValue((CHOOSE p \in it : TRUE)[2])
    ELSE LevelValue(e.level) >= LevelValue(f.default_level)
checkFilter(f, e) ==
    LET it == MapFind(f.domains, e.domain) IN
    IF it # {}
    THEN LevelValue(e.level) <= LevelValue((CHOOSE p \in it : TRUE)[2])
    ELSE LevelValue(e.level) <= LevelValue(f.default_level)

\* Filter::setDefaultLogLevel
setDefaultLogLevel(f, level) == [f EXCEPT !.default_level = level]

\* Filter::setDomainLogLevel (setDomainLogLevelAndDefault: one that writes
\* default_level as well)
setDomainLogLevelAndDefault(f, domain, level) ==
    [f EXCEPT !.domains = MapAssign(@, domain, level), !.default_level = level]
setDomainLogLevel(f, domain, level) ==
    [f EXCEPT !.domains = MapAssign(@, domain, level)]

\* Filter::clearDomainLogLevel
clearDomainLogLevel(f, domain) == [f EXCEPT !.domains = MapErase(@, domain)]

\* history values: no setDomainLogLevel yet, and cleared after one
Never == "never"
Cleared == "cleared"

(* --------------------------- DeferredSink ------------------------------ *)
NoInstance == "nullopt"
NoEntry == [seq |-> 0]
Free == "free"
Worker == "worker"

\* the (meta, msg) arguments the producers pass to DeferredSink::log
LogInputs ==
    { [level |-> "Error", domain |-> "net", instance |-> NoInstance,
       source_location |-> "a.cpp:10", timestamp |-> 1, message |-> "m1"],
      [level |-> "Info", domain |-> "db", instance |-> "i1",
       source_location |-> "b.cpp:20", timestamp |-> 2, message |-> "m2"] }

VARIABLES
    stop_requested,  \* DeferredSink::stop_requested
    mtx,             \* DeferredSink::mtx: Free or the thread that holds it
    queue,           \* DeferredSink::queue
    wpc,             \* worker thread: position in doBackgroundWork
    entry,           \* worker thread: the element `entry` refers to (its seq)
    ppc,             \* producer threads: position in DeferredSink::log
    dle,             \* producer threads: the local DeferredLogEntry
    dpc,             \* owner thread: position in ~DeferredSink
    nlogs,           \* number of DeferredSink::log calls started
    delivered,       \* what underlying->log has received, in order
    pushed,          \* history: the entries in the order of queue.push
    callers          \* history: callers[n] is the thread of the n-th log call

VARIABLES
    underlying,      \* DeferredSink::underlying: the wrapped sink's Filter
    dLastDefault,    \* history: level of the latest DeferredSink::setDefaultLogLevel
    dLastOverride,   \* history: latest DeferredSink set/clearDomainLogLevel
    caller_storage,  \* per producer: the caller's domain, instance and message buffers
    given,           \* history: given[n] is what the n-th log call was passed
    stale            \* history: the calls whose caller's buffers had changed
                     \* when the worker forwarded their entry

\* the variables of the DeferredSink's control plane and of its callers
uvars == <<underlying, dLastDefault, dLastOverride, caller_storage, given>>

dvars == <<stop_requested, mtx, queue, wpc, entry, ppc, dle, dpc, nlogs,
           delivered, pushed, callers, uvars, stale>>

VARIABLES
    sinks,           \* Logger::sinks: the registry, a set of <<name, sink>>
    filt,            \* per sink object: its Filter (default_level, domains)
    lpc,             \* caller of Logger::log: position in dolog
    call,            \* dolog: the arguments (level, domain, fmt, args)
    todo,            \* dolog: registry elements the running loop has yet to visit
    passed,          \* dolog: `passed`
    msg,             \* dolog: `msg`
    renders,         \* number of std::vformat calls of the running dolog
    callLog,         \* per sink object: what its log received in the running dolog
    lastDefault,     \* history: level of the latest setDefaultLogLevel
    lastOverride,    \* history: latest setDomainLogLevel / clearDomainLogLevel
    lastAdded        \* history: the sink of the latest addSink of each name

VARIABLES
    failed,          \* dolog: the sink whose log raised in the running call
    got              \* caller of Logger::getSink: the name and what came back

\* the variables of a failing delivery and of the getSink caller
evars == <<failed, got>>

lvars == <<sinks, filt, lpc, call, todo, passed, msg, renders, callLog,
           lastDefault, lastOverride, lastAdded, evars>>

VARIABLES
    rpc,             \* caller of formatEntry: position in formatEntry
    rfmt,            \* formatEntry: `fmt`, the format string
    rmeta,           \* formatEntry: `meta`
    rmsg,            \* formatEntry: `msg`
    rs,              \* formatEntry: `s`, the scan position (0-based)
    rout,            \* formatEntry: `out`
    iters            \* number of iterations of the scan loop so far

rvars == <<rpc, rfmt, rmeta, rmsg, rs, rout, iters>>

\* what a buffer holds once its owner has overwritten or released it
Released == "released"

\* the caller's buffers holding the strings of a log call, and after it
StorageOf(in) ==
    [domain |-> in.domain, instance |-> in.instance, message |-> in.message]

ReleasedStorage ==
    [domain |-> Released, instance |-> Released, message |-> Released]

\* the caller's buffers
BufferName ==
    [p1 |-> [domain |-> "p1.domain", instance |-> "p1.instance", message |-> "p1.message"],
     p2 |-> [domain |-> "p2.domain", instance |-> "p2.instance", message |-> "p2.message"]]

Fields == {"domain", "instance", "message"}

\* std::string_view into a buffer of caller p: the buffer it refers to, and
\* the characters it sees there during the call
View(p, field, text) == [view |-> BufferName[p][field], sees |-> text]

IsView(x) == \E p \in Producers, f \in Fields : BufferName[p][f] = x

\* the (meta, msg) arguments of the call: domain, instance and message are
\* views into the caller's buffers
ArgsOf(p, in) ==
    [level |-> in.level,
     domain |-> View(p, "domain", in.domain),
     instance |-> IF in.instance = NoInstance
                  THEN [view |-> NoInstance, sees |-> NoInstance]
                  ELSE View(p, "instance", in.instance),
     source_location |-> in.source_location,
     timestamp |-> in.timestamp,
     message |-> View(p, "message", in.message)]

\* std::string{view}: a copy of the characters the view refers to
StringOf(v) == v.sees

\* DeferredLogEntry built from the arguments; seq numbers the log calls
\* (MakeDeferredLogEntryViews: an entry that keeps the views)
MakeDeferredLogEntryViews(in, n) ==
    [seq |-> n, level |-> in.level, domain |-> in.domain.view,
     instance |-> in.instance.view, source_location |-> in.source_location,
     timestamp |-> in.timestamp, message |-> in.message.view]
MakeDeferredLogEntry(in, n) ==
    [seq |-> n, level |-> in.level, domain |-> StringOf(in.domain),
     instance |-> StringOf(in.instance),
     source_location |-> in.source_location,
     timestamp |-> in.timestamp, message |-> StringOf(in.message)]

\* std::queue::push (QueuePushFront: a push at the head instead)
QueuePushFront(q, e) == <<e>> \o q
QueuePush(q, e) == Append(q, e)

\* std::queue::front
QueueFront(q) == Head(q)

\* std::queue::pop (QueuePopBack: a pop at the tail instead)
QueuePopBack(q) == SubSeq(q, 1, Len(q) - 1)
QueuePop(q) == Tail(q)

\* reading through the reference `entry` taken from queue.front(): a push on
\* the underlying std::deque leaves references to its elements valid, and
\* only the worker pops
Deref(q, ref) == CHOOSE e \in {q[i] : i \in 1..Len(q)} : e.seq = ref

\* the characters underlying->log reads: those of the entry's own string,
\* or what the viewed buffer holds by then
Text(x) ==
    IF IsView(x)
    THEN LET b == CHOOSE pf \in Producers \X Fields : BufferName[pf[1]][pf[2]] = x
         IN caller_storage[b[1]][b[2]]
    ELSE x

\* the EntryMetadata and message the worker hands to underlying->log
Forwarded(e) ==
    [seq |-> e.seq, level |-> e.level, domain |-> Text(e.domain),
     instance |-> Text(e.instance), source_location |-> e.source_location,
     timestamp |-> e.timestamp, message |-> Text(e.message)]

\* cv.notify_one: wakes the worker if it is blocked in cv.wait
NotifyOne(pc) == IF pc = "waiting" THEN "woken" ELSE pc

InitDeferred ==
    /\ stop_requested = FALSE
    /\ mtx = Free
    /\ queue = <<>>
    /\ wpc = "outer"
    /\ entry = 0
    /\ ppc = [p \in Producers |-> "idle"]
    /\ dle = [p \in Producers |-> NoEntry]
    /\ dpc = "alive"
    /\ nlogs = 0
    /\ delivered = <<>>
    /\ pushed = <<>>
    /\ callers = <<>>
    /\ underlying = NewFilter
    /\ dLastDefault = "Info"
    /\ dLastOverride = [dom \in Domains |-> Never]
    /\ caller_storage = [p \in Producers |-> ReleasedStorage]
    /\ given = <<>>
    /\ stale = {}

(* DeferredSink::log *)
LogBegin(p, in) ==
    /\ ppc[p] = "idle"
    /\ dpc = "alive"
    /\ nlogs < MaxLogCalls
    /\ nlogs' = nlogs + 1
    /\ callers' = Append(callers, p)
    /\ given' = Append(given, in)
    /\ caller_storage' = [caller_storage EXCEPT ![p] = StorageOf(in)]
    /\ dle' = [dle EXCEPT ![p] = MakeDeferredLogEntry(ArgsOf(p, in), nlogs + 1)]
    /\ ppc' = [ppc EXCEPT ![p] = "lock"]
    /\ UNCHANGED <<stop_requested, mtx, queue, wpc, entry, dpc, delivered, pushed,
                   underlying, dLastDefault, dLastOverride, stale, lvars, rvars>>

LogLock(p) ==
    /\ ppc[p] = "lock"
    /\ mtx = Free
    /\ mtx' = p
    /\ ppc' = [ppc EXCEPT ![p] = "push"]
    /\ UNCHANGED <<stop_requested, queue, wpc, entry, dle, dpc, nlogs, delivered, pushed, callers, uvars, stale, lvars, rvars>>

LogPush(p) ==
    /\ ppc[p] = "push"
    /\ mtx = p
    /\ queue' = QueuePush(queue, dle[p])
    /\ pushed' = Append(pushed, dle[p])
    /\ mtx' = Free
    /\ ppc' = [ppc EXCEPT ![p] = "notify"]
    /\ UNCHANGED <<stop_requested, wpc, entry, dle, dpc, nlogs, delivered, callers, uvars, stale, lvars, rvars>>

\* (LogNotifySkipped: a log that returns without cv.notify_one)
LogNotifySkipped(p) ==
    /\ ppc[p] = "notify"
    /\ wpc' = wpc
    /\ ppc' = [ppc EXCEPT ![p] = "idle"]
    /\ dle' = [dle EXCEPT ![p] = NoEntry]
    /\ UNCHANGED <<stop_requested, mtx, queue, entry, dpc, nlogs, delivered, pushed, callers, uvars, stale, lvars, rvars>>
LogNotify(p) ==
    /\ ppc[p] = "notify"
    /\ wpc' = NotifyOne(wpc)
    /\ ppc' = [ppc EXCEPT ![p] = "idle"]
    /\ dle' = [dle EXCEPT ![p] = NoEntry]
    /\ UNCHANGED <<stop_requested, mtx, queue, entry, dpc, nlogs, delivered, pushed, callers, uvars, stale, lvars, rvars>>

(* DeferredSink::doBackgroundWork *)
\* while (!this->stop_requested)
WorkerOuter ==
    /\ wpc = "outer"
    /\ wpc' = IF stop_requested THEN "exit" ELSE "lock"
    /\ UNCHANGED <<stop_requested, mtx, queue, entry, ppc, dle, dpc, nlogs, delivered, pushed, callers, uvars, stale, lvars, rvars>>

\* std::unique_lock lg {this->mtx};
WorkerLock ==
    /\ wpc = "lock"
    /\ mtx = Free
    /\ mtx' = Worker
    /\ wpc' = "pred"
    /\ UNCHANGED <<stop_requested, queue, entry, ppc, dle, dpc, nlogs, delivered, pushed, callers, uvars, stale, lvars, rvars>>

\* cv.wait(lg, pred): the predicate, evaluated with the mutex held
WorkerPred ==
    /\ wpc = "pred"
    /\ wpc' = IF stop_requested \/ queue # <<>> THEN "inner" ELSE "prewait"
    /\ UNCHANGED <<stop_requested, mtx, queue, entry, ppc, dle, dpc, nlogs, delivered, pushed, callers, uvars, stale, lvars, rvars>>

\* cv.wait(lg): releases the mutex and blocks
WorkerBlock ==
    /\ wpc = "prewait"
    /\ mtx' = Free
    /\ wpc' = "waiting"
    /\ UNCHANGED <<stop_requested, queue, entry, ppc, dle, dpc, nlogs, delivered, pushed, callers, uvars, stale, lvars, rvars>>

\* cv.wait(lg) may return without a notification
SpuriousWakeup ==
    /\ wpc = "waiting"
    /\ wpc' = "woken"
    /\ UNCHANGED <<stop_requested, mtx, queue, entry, ppc, dle, dpc, nlogs, delivered, pushed, callers, uvars, stale, lvars, rvars>>

\* cv.wait(lg): reacquires the mutex before it returns
WorkerWake ==
    /\ wpc = "woken"
    /\ mtx = Free
    /\ mtx' = Worker
    /\ wpc' = "pred"
    /\ UNCHANGED <<stop_requested, queue, entry, ppc, dle, dpc, nlogs, delivered, pushed, callers, uvars, stale, lvars, rvars>>

\* while (!this->queue.empty()) { entry = queue.front(); lg.unlock(); ...
\* and, on an empty queue, the end of the outer loop's body (lg is released)
\* (WorkerInnerNoUnlock: the body without lg.unlock())
WorkerInnerNoUnlock ==
    /\ wpc = "inner"
    /\ IF queue = <<>>
       THEN /\ wpc' = "outer"
            /\ entry' = entry
            /\ mtx' = Free
       ELSE /\ wpc' = "deliver"
            /\ entry' = QueueFront(queue).seq
            /\ mtx' = mtx
    /\ UNCHANGED <<stop_requested, queue, ppc, dle, dpc, nlogs, delivered, pushed, callers, uvars, stale, lvars, rvars>>
WorkerInner ==
    /\ wpc = "inner"
    /\ IF queue = <<>>
       THEN /\ wpc' = "outer"
            /\ entry' = entry
       ELSE /\ wpc' = "deliver"
            /\ entry' = QueueFront(queue).seq
    /\ mtx' = Free
    /\ UNCHANGED <<stop_requested, queue, ppc, dle, dpc, nlogs, delivered, pushed, callers, uvars, stale, lvars, rvars>>

\* this->underlying->log(meta, entry.message);
WorkerDeliver ==
    /\ wpc = "deliver"
    /\ delivered' = Append(delivered, Forwarded(Deref(queue, entry)))
    /\ stale' = IF caller_storage[callers[entry]] = StorageOf(given[entry])
                THEN stale ELSE stale \cup {entry}
    /\ wpc' = "relock"
    /\ UNCHANGED <<stop_requested, mtx, queue, entry, ppc, dle, dpc, nlogs, pushed, callers, uvars, lvars, rvars>>

\* lg.lock();
WorkerRelock ==
    /\ wpc = "relock"
    /\ mtx = Free
    /\ mtx' = Worker
    /\ wpc' = "pop"
    /\ UNCHANGED <<stop_requested, queue, entry, ppc, dle, dpc, nlogs, delivered, pushed, callers, uvars, stale, lvars, rvars>>

\* this->queue.pop();
WorkerPop ==
    /\ wpc = "pop"
    /\ queue' = QueuePop(queue)
    /\ wpc' = "inner"
    /\ UNCHANGED <<stop_requested, mtx, entry, ppc, dle, dpc, nlogs, delivered, pushed, callers, uvars, stale, lvars, rvars>>

(* DeferredSink::~DeferredSink *)
\* this->stop_requested = true;  (no log call is in progress or follows)
DtorStop ==
    /\ dpc = "alive"
    /\ \A p \in Producers : ppc[p] = "idle"
    /\ stop_requested' = TRUE
    /\ dpc' = "notify"
    /\ UNCHANGED <<mtx, queue, wpc, entry, ppc, dle, nlogs, delivered, pushed, callers, uvars, stale, lvars, rvars>>

\* this->cv.notify_one();
DtorNotify ==
    /\ dpc = "notify"
    /\ wpc' = NotifyOne(wpc)
    /\ dpc' = "join"
    /\ UNCHANGED <<stop_requested, mtx, queue, entry, ppc, dle, nlogs, delivered, pushed, callers, uvars, stale, lvars, rvars>>

\* this->worker.join();
DtorJoin ==
    /\ dpc = "join"
    /\ wpc = "exit"
    /\ dpc' = "destroyed"
    /\ UNCHANGED <<stop_requested, mtx, queue, wpc, entry, ppc, dle, nlogs, delivered, pushed, callers, uvars, stale, lvars, rvars>>

NextDeferred ==
    \/ \E p \in Producers, in \in LogInputs : LogBegin(p, in)
    \/ \E p \in Producers : LogLock(p)
    \/ \E p \in Producers : LogPush(p)
    \/ \E p \in Producers : LogNotify(p)
    \/ WorkerOuter
    \/ WorkerLock
    \/ WorkerPred
    \/ WorkerBlock
    \/ SpuriousWakeup
    \/ WorkerWake
    \/ WorkerInner
    \/ WorkerDeliver
    \/ WorkerRelock
    \/ WorkerPop
    \/ DtorStop
    \/ DtorNotify
    \/ DtorJoin

\* the DeferredSink while it is not destroyed, its callers logging one entry
RunningInputs == {in \in LogInputs : in.instance # NoInstance}

NextRunning ==
    \/ \E p \in Producers, in \in RunningInputs : LogBegin(p, in)
    \/ \E p \in Producers : LogLock(p)
    \/ \E p \in Producers : LogPush(p)
    \/ \E p \in Producers : LogNotify(p)
    \/ WorkerOuter
    \/ WorkerLock
    \/ WorkerPred
    \/ WorkerBlock
    \/ SpuriousWakeup
    \/ WorkerWake
    \/ WorkerInner
    \/ WorkerDeliver
    \/ WorkerRelock
    \/ WorkerPop

\* the DeferredSink with one thread calling log
Caller == "p1"

NextSingle ==
    \/ \E in \in LogInputs : LogBegin(Caller, in)
    \/ LogLock(Caller)
    \/ LogPush(Caller)
    \/ LogNotify(Caller)
    \/ WorkerOuter
    \/ WorkerLock
    \/ WorkerPred
    \/ WorkerBlock
    \/ SpuriousWakeup
    \/ WorkerWake
    \/ WorkerInner
    \/ WorkerDeliver
    \/ WorkerRelock
    \/ WorkerPop
    \/ DtorStop
    \/ DtorNotify
    \/ DtorJoin

(* DeferredSink: the Filter interface *)
\* DeferredSink::checkFilter (DeferredCheckFilterOwn: Filter::checkFilter on
\* the DeferredSink's own, never written, Filter members)
DeferredCheckFilterOwn(e) == checkFilter(NewFilter, e)
DeferredCheckFilter(e) == checkFilter(underlying, e)

\* DeferredSink::setDefaultLogLevel
DeferredSetDefaultLogLevel(level) ==
    /\ dpc = "alive"
    /\ underlying' = setDefaultLogLevel(underlying, level)
    /\ dLastDefault' = level
    /\ UNCHANGED <<stop_requested, mtx, queue, wpc, entry, ppc, dle, dpc, nlogs,
                   delivered, pushed, callers, dLastOverride, caller_storage,
                   given, stale, lvars, rvars>>

\* DeferredSink::setDomainLogLevel
DeferredSetDomainLogLevel(domain, level) ==
    /\ dpc = "alive"
    /\ underlying' = setDomainLogLevel(underlying, domain, level)
    /\ dLastOverride' = [dLastOverride EXCEPT ![domain] = level]
    /\ UNCHANGED <<stop_requested, mtx, queue, wpc, entry, ppc, dle, dpc, nlogs,
                   delivered, pushed, callers, dLastDefault, caller_storage,
                   given, stale, lvars, rvars>>

\* DeferredSink::clearDomainLogLevel
DeferredClearDomainLogLevel(domain) ==
    /\ dpc = "alive"
    /\ underlying' = clearDomainLogLevel(underlying, domain)
    /\ dLastOverride' = [dLastOverride EXCEPT ![domain] =
                           IF @ = Never THEN Never ELSE Cleared]
    /\ UNCHANGED <<stop_requested, mtx, queue, wpc, entry, ppc, dle, dpc, nlogs,
                   delivered, pushed, callers, dLastDefault, caller_storage,
                   given, stale, lvars, rvars>>

\* the DeferredSink at work while its filter is configured
NextControl ==
    \/ NextSingle
    \/ \E level \in SetLevels : DeferredSetDefaultLogLevel(level)
    \/ \E domain \in CallSetDomains, level \in SetLevels :
         DeferredSetDomainLogLevel(domain, level)
    \/ \E domain \in CallSetDomains : DeferredClearDomainLogLevel(domain)

\* a caller, back from log, overwrites or releases the buffers it passed
CallerRelease(p) ==
    /\ ppc[p] = "idle"
    /\ caller_storage[p] # ReleasedStorage
    /\ caller_storage' = [caller_storage EXCEPT ![p] = ReleasedStorage]
    /\ UNCHANGED <<stop_requested, mtx, queue, wpc, entry, ppc, dle, dpc, nlogs,
                   delivered, pushed, callers, underlying, dLastDefault,
                   dLastOverride, given, stale, lvars, rvars>>

\* the DeferredSink at work while its callers reuse their buffers
NextDetached ==
    \/ NextSingle
    \/ CallerRelease(Caller)

(* ------------------------------ Logger --------------------------------- *)
SinkNames == {"console", "file"}
SinkIds == {"d1", "d2"}
NotFound == "NotFound"
NoSink == "none"
NoCall == [level |-> "none"]
NoGot == [name |-> "none", result |-> "none"]
NoMsg == <<>>

\* the format string and arguments of a log call
Templates ==
    { [fmt |-> <<"up">>, args |-> <<>>],
      [fmt |-> <<"disk ", "{}">>, args |-> <<"full">>] }

\* std::vformat: each replacement field takes the next argument
RECURSIVE vformat(_, _)
vformat(fmt, args) ==
    IF fmt = <<>> THEN <<>>
    ELSE IF Head(fmt) = "{}"
         THEN <<Head(args)>> \o vformat(Tail(fmt), Tail(args))
         ELSE <<Head(fmt)>> \o vformat(Tail(fmt), args)

\* Logger::getSink: the sink, or the runtime_error
\* (getSinkOrDefault: a lookup that falls back on a sink instead of throwing)
getSinkOrDefault(m, name) ==
    LET it == MapFind(m, name) IN
    IF it # {} THEN (CHOOSE p \in it : TRUE)[2] ELSE "d1"
getSink(m, name) ==
    LET it == MapFind(m, name) IN
    IF it # {} THEN (CHOOSE p \in it : TRUE)[2] ELSE NotFound

\* the sink objects the registry owns
Registered == {p[2] : p \in sinks}

\* dolog's EntryMetadata
Meta(c) ==
    [level |-> c.level, domain |-> c.domain, instance |-> c.instance,
     source_location |-> c.source_location, timestamp |-> c.timestamp]

\* Sink::log of a synchronous destination: it records what it is given
SinkLog(log, meta, m) == Append(log, [meta |-> meta, msg |-> m])

InitLogger ==
    /\ sinks = {}
    /\ filt = [d \in SinkIds |-> NewFilter]
    /\ lpc = "idle"
    /\ call = NoCall
    /\ todo = {}
    /\ passed = FALSE
    /\ msg = NoMsg
    /\ renders = 0
    /\ callLog = [d \in SinkIds |-> <<>>]
    /\ lastDefault = [d \in SinkIds |-> "Info"]
    /\ lastOverride = [d \in SinkIds |-> [dom \in Domains |-> Never]]
    /\ lastAdded = [n \in SinkNames |-> NoSink]
    /\ failed = NoSink
    /\ got = NoGot

\* Logger::addSink with a newly made sink d; when the name is taken the
\* registry is left as it is and d is destroyed with the argument
AddSink(name, d) ==
    /\ lpc = "idle"
    /\ d \notin Registered
    /\ sinks' = MapEmplace(sinks, name, d)
    /\ lastAdded' = [lastAdded EXCEPT ![name] = d]
    /\ UNCHANGED <<filt, lpc, call, todo, passed, msg, renders, callLog,
                   lastDefault, lastOverride, evars, dvars, rvars>>

\* Logger::removeSink: the erased sink is destroyed
RemoveSink(name) ==
    /\ lpc = "idle"
    /\ sinks' = MapErase(sinks, name)
    /\ LET gone == {p[2] : p \in MapFind(sinks, name)} IN
         /\ filt' = [d \in SinkIds |-> IF d \in gone THEN NewFilter ELSE filt[d]]
         /\ lastDefault' = [d \in SinkIds |->
                              IF d \in gone THEN "Info" ELSE lastDefault[d]]
         /\ lastOverride' = [d \in SinkIds |->
                               IF d \in gone THEN [dom \in Domains |-> Never]
                               ELSE lastOverride[d]]
    /\ lastAdded' = [lastAdded EXCEPT ![name] = NoSink]
    /\ UNCHANGED <<lpc, call, todo, passed, msg, renders, callLog, evars, dvars, rvars>>

\* getSink(name).setDefaultLogLevel(level)
SetDefaultLogLevel(name, level) ==
    /\ lpc = "idle"
    /\ getSink(sinks, name) # NotFound
    /\ LET d == getSink(sinks, name) IN
         /\ filt' = [filt EXCEPT ![d] = setDefaultLogLevel(@, level)]
         /\ lastDefault' = [lastDefault EXCEPT ![d] = level]
    /\ UNCHANGED <<sinks, lpc, call, todo, passed, msg, renders, callLog,
                   lastOverride, lastAdded, evars, dvars, rvars>>

\* getSink(name).setDomainLogLevel(domain, level)
SetDomainLogLevel(name, domain, level) ==
    /\ lpc = "idle"
    /\ getSink(sinks, name) # NotFound
    /\ LET d == getSink(sinks, name) IN
         /\ filt' = [filt EXCEPT ![d] = setDomainLogLevel(@, domain, level)]
         /\ lastOverride' = [lastOverride EXCEPT ![d][domain] = level]
    /\ UNCHANGED <<sinks, lpc, call, todo, passed, msg, renders, callLog,
                   lastDefault, lastAdded, evars, dvars, rvars>>

\* getSink(name).clearDomainLogLevel(domain)
ClearDomainLogLevel(name, domain) ==
    /\ lpc = "idle"
    /\ getSink(sinks, name) # NotFound
    /\ LET d == getSink(sinks, name) IN
         /\ filt' = [filt EXCEPT ![d] = clearDomainLogLevel(@, domain)]
         /\ lastOverride' = [lastOverride EXCEPT ![d][domain] =
                               IF @ = Never THEN Never ELSE Cleared]
    /\ UNCHANGED <<sinks, lpc, call, todo, passed, msg, renders, callLog,
                   lastDefault, lastAdded, evars, dvars, rvars>>

\* a caller's getSink(name): it holds the sink or catches the runtime_error
GetSinkCall(name) ==
    /\ lpc = "idle"
    /\ got' = [name |-> name, result |-> getSink(sinks, name)]
    /\ UNCHANGED <<sinks, filt, lpc, call, todo, passed, msg, renders, callLog,
                   lastDefault, lastOverride, lastAdded, failed, dvars, rvars>>

(* Logger::dolog *)
\* the EntryMetadata is built and the first loop over the sinks starts
DoLogBegin(level, domain, t) ==
    /\ lpc = "idle"
    /\ call' = [level |-> level, domain |-> domain, instance |-> NoInstance,
                source_location |-> "main.cpp:1", timestamp |-> 0,
                fmt |-> t.fmt, args |-> t.args]
    /\ todo' = sinks
    /\ passed' = FALSE
    /\ msg' = NoMsg
    /\ renders' = 0
    /\ callLog' = [d \in SinkIds |-> <<>>]
    /\ lpc' = "filter"
    /\ UNCHANGED <<sinks, filt, lastDefault, lastOverride, lastAdded, evars, dvars, rvars>>

\* first loop: if (sink->checkFilter(meta)) return true;
DoLogCheck ==
    /\ lpc = "filter"
    /\ \E p \in todo :
         IF checkFilter(filt[p[2]], Meta(call))
         THEN /\ passed' = TRUE
              /\ todo' = {}
              /\ lpc' = "format"
         ELSE /\ todo' = todo \ {p}
              /\ UNCHANGED <<passed, lpc>>
    /\ UNCHANGED <<sinks, filt, call, msg, renders, callLog,
                   lastDefault, lastOverride, lastAdded, evars, dvars, rvars>>

\* first loop exhausted: return false; if (passed) is not taken
\* (DoLogSuppressedFormat: a dolog without the if)
DoLogSuppressedFormat ==
    /\ lpc = "filter"
    /\ todo = {}
    /\ passed' = FALSE
    /\ lpc' = "format"
    /\ UNCHANGED <<sinks, filt, call, todo, msg, renders, callLog,
                   lastDefault, lastOverride, lastAdded, evars, dvars, rvars>>
DoLogSuppressed ==
    /\ lpc = "filter"
    /\ todo = {}
    /\ passed' = FALSE
    /\ lpc' = "returned"
    /\ UNCHANGED <<sinks, filt, call, todo, msg, renders, callLog,
                   lastDefault, lastOverride, lastAdded, evars, dvars, rvars>>

\* std::string const msg = std::vformat(fmt, args);
DoLogFormat ==
    /\ lpc = "format"
    /\ msg' = vformat(call.fmt, call.args)
    /\ renders' = renders + 1
    /\ todo' = sinks
    /\ lpc' = "deliver"
    /\ UNCHANGED <<sinks, filt, call, passed, callLog,
                   lastDefault, lastOverride, lastAdded, evars, dvars, rvars>>

\* second loop: if (sink->checkFilter(meta)) sink->log(meta, msg);
\* (DoLogDeliverFormatEach: a loop that formats per sink;
\* DoLogDeliverUnfiltered: a loop without the checkFilter)
DoLogDeliverFormatEach ==
    /\ lpc = "deliver"
    /\ \E p \in todo :
         /\ todo' = todo \ {p}
         /\ IF checkFilter(filt[p[2]], Meta(call))
            THEN /\ callLog' = [callLog EXCEPT ![p[2]] = SinkLog(@, Meta(call), msg)]
                 /\ renders' = renders + 1
            ELSE UNCHANGED <<callLog, renders>>
    /\ UNCHANGED <<sinks, filt, lpc, call, passed, msg,
                   lastDefault, lastOverride, lastAdded, evars, dvars, rvars>>
DoLogDeliverUnfiltered ==
    /\ lpc = "deliver"
    /\ \E p \in todo :
         /\ todo' = todo \ {p}
         /\ callLog' = [callLog EXCEPT ![p[2]] = SinkLog(@, Meta(call), msg)]
    /\ UNCHANGED <<sinks, filt, lpc, call, passed, msg, renders,
                   lastDefault, lastOverride, lastAdded, evars, dvars, rvars>>
DoLogDeliver ==
    /\ lpc = "deliver"
    /\ \E p \in todo :
         /\ todo' = todo \ {p}
         /\ callLog' = IF checkFilter(filt[p[2]], Meta(call))
                       THEN [callLog EXCEPT ![p[2]] = SinkLog(@, Meta(call), msg)]
                       ELSE callLog
    /\ UNCHANGED <<sinks, filt, lpc, call, passed, msg, renders,
                   lastDefault, lastOverride, lastAdded, evars, dvars, rvars>>

\* second loop: sink->log(meta, msg) throws; dolog has no handler, the
\* exception leaves the loop and dolog
\* (DoLogDeliverThrowsCaught: a loop that catches and goes on)
DoLogDeliverThrowsCaught ==
    /\ lpc = "deliver"
    /\ \E p \in todo :
         /\ checkFilter(filt[p[2]], Meta(call))
         /\ todo' = todo \ {p}
         /\ failed' = p[2]
    /\ UNCHANGED <<sinks, filt, lpc, call, passed, msg, renders, callLog,
                   lastDefault, lastOverride, lastAdded, got, dvars, rvars>>
DoLogDeliverThrows ==
    /\ lpc = "deliver"
    /\ \E p \in todo :
         /\ checkFilter(filt[p[2]], Meta(call))
         /\ todo' = todo \ {p}
         /\ failed' = p[2]
    /\ lpc' = "thrown"
    /\ UNCHANGED <<sinks, filt, call, passed, msg, renders, callLog,
                   lastDefault, lastOverride, lastAdded, got, dvars, rvars>>

\* the exception reaches the caller of log; dolog's locals are gone
DoLogUnwind ==
    /\ lpc = "thrown"
    /\ lpc' = "idle"
    /\ call' = NoCall
    /\ todo' = {}
    /\ passed' = FALSE
    /\ msg' = NoMsg
    /\ renders' = 0
    /\ callLog' = [d \in SinkIds |-> <<>>]
    /\ failed' = NoSink
    /\ UNCHANGED <<sinks, filt, lastDefault, lastOverride, lastAdded, got, dvars, rvars>>

\* second loop exhausted: dolog returns
DoLogDone ==
    /\ lpc = "deliver"
    /\ todo = {}
    /\ lpc' = "returned"
    /\ UNCHANGED <<sinks, filt, call, todo, passed, msg, renders, callLog,
                   lastDefault, lastOverride, lastAdded, evars, dvars, rvars>>

\* the caller goes on; dolog's locals are gone
DoLogReturn ==
    /\ lpc = "returned"
    /\ lpc' = "idle"
    /\ call' = NoCall
    /\ passed' = FALSE
    /\ msg' = NoMsg
    /\ renders' = 0
    /\ callLog' = [d \in SinkIds |-> <<>>]
    /\ UNCHANGED <<sinks, filt, todo, lastDefault, lastOverride, lastAdded, evars, dvars, rvars>>

\* the registry and filter calls, with the domains and levels given
Configure(domains, levels) ==
    \/ \E name \in SinkNames, d \in SinkIds : AddSink(name, d)
    \/ \E name \in SinkNames : RemoveSink(name)
    \/ \E name \in SinkNames, level \in levels : SetDefaultLogLevel(name, level)
    \/ \E name \in SinkNames, domain \in domains, level \in levels :
         SetDomainLogLevel(name, domain, level)
    \/ \E name \in SinkNames, domain \in domains : ClearDomainLogLevel(name, domain)

\* the filters of the registered sinks are configured; no log call is made
NextFilter == Configure(Domains, SetLevels)

\* log calls, between configuration calls on one domain
NextLogger ==
    \/ Configure(CallSetDomains, SetLevels)
    \/ \E level \in CallLevels, domain \in EntryDomains, t \in Templates :
         DoLogBegin(level, domain, t)
    \/ DoLogCheck
    \/ DoLogSuppressed
    \/ DoLogFormat
    \/ DoLogDeliver
    \/ DoLogDeliverThrows
    \/ DoLogUnwind
    \/ DoLogDone
    \/ DoLogReturn

\* sinks are looked up by name, between registry calls
NextRegistry ==
    \/ Configure(CallSetDomains, SetLevels)
    \/ \E name \in SinkNames : GetSinkCall(name)

(* ------------------------- FormattedStringSink ------------------------ *)
\* A string is a sequence of pieces: the characters of the template and of
\* the message one by one, and each inserted field or escape sequence whole.
MaxFmtLen == 3
MaxIters == 30

NoFmt == <<>>

\* FormattedStringSink::default_fmt as constructed
DefaultFmt ==
    <<"%", "H", ":", "%", "M", ":", "%", "S", " ", "%", "F", ":", "%", "l",
      " ", "%", "D", "[", "%", "I", "]", " ", "%", "L", ":", " ", " ",
      "%", "x", "%", "R", "%", "n">>

\* the characters the generated templates are made of
FmtChars == {"a", "%", "C", "x", "Z"}

RECURSIVE StringsUpTo(_)
StringsUpTo(n) ==
    IF n = 0 THEN {<<>>}
    ELSE LET shorter == StringsUpTo(n - 1) IN
         shorter \cup {Append(t, c) : t \in shorter, c \in FmtChars}

\* the templates getFormatString may return
FormatStrings ==
    StringsUpTo(MaxFmtLen) \cup
    { DefaultFmt,
      <<"a", "b", "%">>,
      <<"a", "%", "Z", "b">>,
      <<"a", "%", "C", "z", "b">>,
      <<"a", "%", "Q", "z", "b">>,
      <<"%", "Q", "r", "%", "C", "W", "%", "%", "%", "Q">>,
      <<"%", "y", "%", "Y", "%", "b", "%", "B", "%", "m", "%", "d", "%", "e",
        "%", "a", "%", "A", "%", "f", "%", "c">> }

\* the entries and messages formatEntry is given
RenderMetas ==
    { [level |-> "Error", domain |-> "net", instance |-> NoInstance,
       source_location |-> [file_name |-> <<"src", "main.cpp">>,
                            function_name |-> "main", line |-> "10", column |-> "5"],
       timestamp |-> 0],
      [level |-> "Info", domain |-> "db", instance |-> "i1",
       source_location |-> [file_name |-> <<"b.cpp">>,
                            function_name |-> "run", line |-> "20", column |-> "1"],
       timestamp |-> 0] }

Messages == { <<>>, <<"h", "i", " ", "u">>, <<"5", "%", "x">> }

\* fmt[i], fmt.substr(pos, n), fmt.find('%', pos)
At(fmt, i) == fmt[i + 1]
Substr(fmt, pos, n) == SubSeq(fmt, pos + 1, pos + n)
FindPercent(fmt, pos) == {p \in pos..(Len(fmt) - 1) : At(fmt, p) = "%"}
Least(S) == CHOOSE p \in S : \A q \in S : p <= q

\* truncateFilename: what follows the last '/'
truncateFilename(file_name) ==
    IF file_name = <<>> THEN <<>> ELSE <<file_name[Len(file_name)]>>

\* std::format_to(out_it, "{:%y}", local_timestamp) and the like
FormatTime ==
    [y |-> "{:%y}", Y |-> "{:%Y}", b |-> "{:%b}", B |-> "{:%B}", m |-> "{:%m}",
     d |-> "{:%d}", e |-> "{:%e}", a |-> "{:%a}", A |-> "{:%A}", H |-> "{:%H}",
     M |-> "{:%M}", S |-> "{:%S}"]

\* std::format("{: >8}", getLogLevelString(level))
FormatLevel ==
    [Fatal |-> "   Fatal", Critical |-> "Critical", Error |-> "   Error",
     Warning |-> " Warning", Info |-> "    Info", Debug |-> "   Debug",
     Noise |-> "   Noise"]

\* case 'C': the foreground colors; case 'Q': the background colors
ForegroundColors ==
    [x |-> "ESC[30m", r |-> "ESC[31m", g |-> "ESC[32m", y |-> "ESC[33m",
     b |-> "ESC[34m", m |-> "ESC[35m", c |-> "ESC[36m", w |-> "ESC[37m",
     X |-> "ESC[90m", R |-> "ESC[91m", G |-> "ESC[92m", Y |-> "ESC[93m",
     B |-> "ESC[94m", M |-> "ESC[95m", C |-> "ESC[96m", W |-> "ESC[97m"]
BackgroundColors ==
    [x |-> "ESC[40m", r |-> "ESC[41m", g |-> "ESC[42m", y |-> "ESC[43m",
     b |-> "ESC[44m", m |-> "ESC[45m", c |-> "ESC[46m", w |-> "ESC[47m",
     X |-> "ESC[100m", R |-> "ESC[101m", G |-> "ESC[102m", Y |-> "ESC[103m",
     B |-> "ESC[104m", M |-> "ESC[105m", C |-> "ESC[106m", W |-> "ESC[107m"]

\* the inner switch (cc) and the s++ after it: what is appended, and by how
\* much s moves before the s += 2
\* (ColorDirectiveNoSkip: the inner switch without the s++)
ColorDirectiveNoSkip(colors, fmt, pos) ==
    IF pos < Len(fmt) - 2
    THEN LET cc == At(fmt, pos + 2) IN
         [out |-> IF cc \in DOMAIN colors THEN <<colors[cc]>> ELSE <<>>, skip |-> 0]
    ELSE [out |-> <<>>, skip |-> 0]
ColorDirective(colors, fmt, pos) ==
    IF pos < Len(fmt) - 2
    THEN LET cc == At(fmt, pos + 2) IN
         [out |-> IF cc \in DOMAIN colors THEN <<colors[cc]>> ELSE <<>>, skip |-> 1]
    ELSE [out |-> <<>>, skip |-> 0]

\* case 'x': out += msg  (MessageWord: the message up to its first space)
MessageWord(m) ==
    LET sp == {i \in 1..Len(m) : m[i] = " "} IN
    IF sp = {} THEN m ELSE SubSeq(m, 1, Least(sp) - 1)
Message(m) == m

\* default: break  (UnknownEcho: a default that copies the character)
UnknownEcho(fc) == <<fc>>
Unknown(fc) == <<>>

\* switch (fc): what is appended, and the s++ of the color cases
Directive(fc, fmt, pos, meta, m) ==
    CASE fc = "%" -> [out |-> <<"%">>, skip |-> 0]
      [] fc = "n" -> [out |-> <<"LF">>, skip |-> 0]
      [] fc \in DOMAIN FormatTime -> [out |-> <<FormatTime[fc]>>, skip |-> 0]
      [] fc = "F" -> [out |-> truncateFilename(meta.source_location.file_name), skip |-> 0]
      [] fc = "f" -> [out |-> <<meta.source_location.function_name>>, skip |-> 0]
      [] fc = "l" -> [out |-> <<meta.source_location.line>>, skip |-> 0]
      [] fc = "c" -> [out |-> <<meta.source_location.column>>, skip |-> 0]
      [] fc = "D" -> [out |-> <<meta.domain>>, skip |-> 0]
      [] fc = "I" -> [out |-> IF meta.instance = NoInstance THEN <<>>
                              ELSE <<meta.instance>>, skip |-> 0]
      [] fc = "L" -> [out |-> <<FormatLevel[meta.level]>>, skip |-> 0]
      [] fc = "x" -> [out |-> Message(m), skip |-> 0]
      [] fc = "R" -> [out |-> <<"ESC[0m">>, skip |-> 0]
      [] fc = "C" -> ColorDirective(ForegroundColors, fmt, pos)
      [] fc = "Q" -> ColorDirective(BackgroundColors, fmt, pos)
      [] OTHER -> [out |-> Unknown(fc), skip |-> 0]

InitRender ==
    /\ rpc = "idle"
    /\ rfmt = NoFmt
    /\ rmeta = NoCall
    /\ rmsg = NoMsg
    /\ rs = 0
    /\ rout = <<>>
    /\ iters = 0

(* FormattedStringSink::formatEntry *)
\* fmt = getFormatString(meta.level); std::string out; size_t s = 0;
FormatEntryBegin(fmt, meta, m) ==
    /\ rpc = "idle"
    /\ rpc' = "scan"
    /\ rfmt' = fmt
    /\ rmeta' = meta
    /\ rmsg' = m
    /\ rs' = 0
    /\ rout' = <<>>
    /\ iters' = 0
    /\ UNCHANGED <<dvars, lvars>>

\* an iteration with fmt[s] != '%': the run up to the next '%' is copied
ScanLiteral ==
    /\ rpc = "scan"
    /\ iters < MaxIters
    /\ rs < Len(rfmt)
    /\ At(rfmt, rs) # "%"
    /\ LET found == FindPercent(rfmt, rs) IN
         IF found = {}
         THEN /\ rout' = rout \o Substr(rfmt, rs, Len(rfmt) - rs)
              /\ rs' = Len(rfmt)
         ELSE LET p == Least(found) IN
              /\ rout' = rout \o Substr(rfmt, rs, p - rs)
              /\ rs' = rs + (p - rs)
    /\ iters' = iters + 1
    /\ UNCHANGED <<rpc, rfmt, rmeta, rmsg, dvars, lvars>>

\* an iteration with fmt[s] == '%' and s < fmt.size() - 1 (fmt.size() is at
\* least 1 inside the loop, and at least 2 inside this branch: the unsigned
\* subtractions do not wrap)
ScanDirective ==
    /\ rpc = "scan"
    /\ iters < MaxIters
    /\ rs < Len(rfmt)
    /\ At(rfmt, rs) = "%"
    /\ rs < Len(rfmt) - 1
    /\ LET fc == At(rfmt, rs + 1)
           r == Directive(fc, rfmt, rs, rmeta, rmsg)
       IN  /\ rout' = rout \o r.out
           /\ rs' = rs + r.skip + 2
    /\ iters' = iters + 1
    /\ UNCHANGED <<rpc, rfmt, rmeta, rmsg, dvars, lvars>>

\* an iteration with fmt[s] == '%' and s == fmt.size() - 1: neither branch
\* is taken, and the loop condition is evaluated again
ScanNeither ==
    /\ rpc = "scan"
    /\ iters < MaxIters
    /\ rs < Len(rfmt)
    /\ At(rfmt, rs) = "%"
    /\ ~(rs < Len(rfmt) - 1)
    /\ iters' = iters + 1
    /\ UNCHANGED <<rpc, rfmt, rmeta, rmsg, rs, rout, dvars, lvars>>

\* the loop condition s < fmt.size() fails: return out;
FormatEntryReturn ==
    /\ rpc = "scan"
    /\ ~(rs < Len(rfmt))
    /\ rpc' = "done"
    /\ UNCHANGED <<rfmt, rmeta, rmsg, rs, rout, iters, dvars, lvars>>

NextRender ==
    \/ \E fmt \in FormatStrings, meta \in RenderMetas, m \in Messages :
         FormatEntryBegin(fmt, meta, m)
    \/ ScanLiteral
    \/ ScanDirective
    \/ ScanNeither
    \/ FormatEntryReturn

vars == <<dvars, lvars, rvars>>

Init == InitDeferred /\ InitLogger /\ InitRender

\* each thread keeps running while it can take a step; a wait in cv.wait
\* ends when it is notified, and need not end otherwise
FairDeferred ==
    /\ \A p \in Producers :
         WF_vars(LogLock(p)) /\ WF_vars(LogPush(p)) /\ WF_vars(LogNotify(p))
    /\ WF_vars(WorkerOuter) /\ SF_vars(WorkerLock) /\ WF_vars(WorkerPred)
    /\ WF_vars(WorkerBlock) /\ SF_vars(WorkerWake) /\ WF_vars(WorkerInner)
    /\ WF_vars(WorkerDeliver) /\ SF_vars(WorkerRelock) /\ WF_vars(WorkerPop)
    /\ WF_vars(DtorNotify) /\ WF_vars(DtorJoin)

SpecDeferred == Init /\ [][NextDeferred]_vars

SpecControl == Init /\ [][NextControl]_vars

SpecDetached == Init /\ [][NextDetached]_vars

SpecDeferredFair == Init /\ [][NextDeferred]_vars /\ FairDeferred

SpecRunningFair == Init /\ [][NextRunning]_vars /\ FairDeferred

SpecFilter == Init /\ [][NextFilter]_vars

SpecLogger == Init /\ [][NextLogger]_vars

SpecRegistry == Init /\ [][NextRegistry]_vars

SpecRender == Init /\ [][NextRender]_vars

(* ------------------------- claims: DeferredSink ------------------------ *)
IsPrefix(s, t) == Len(s) <= Len(t) /\ \A i \in 1..Len(s) : s[i] = t[i]

\* C1: when destruction has completed (the worker is joined), the wrapped
\* destination has received exactly the K entries enqueued before it.
C1_Durability == dpc = "destroyed" => Len(delivered) = Len(pushed)

\* C2: the entries forwarded so far to the wrapped destination are a prefix
\* of the entries in the order they were appended to the queue, and the
\* entries of one producer thread are forwarded in the order of its calls.
C2_FifoPrefix ==
    /\ IsPrefix(delivered, pushed)
    /\ \A i, j \in 1..Len(delivered) :
         (i < j /\ callers[delivered[i].seq] = callers[delivered[j].seq])
             => delivered[i].seq < delivered[j].seq

\* C2 witness: entries of both producers forwarded, one producer's entry
\* overtaken at the mutex by the other's, and a log call still running
C2_Witness ==
    /\ Len(delivered) = 2
    /\ Len(pushed) = 3
    /\ delivered[1].seq > delivered[2].seq
    /\ callers[pushed[3].seq] = callers[pushed[1].seq]
    /\ \E p \in Producers : ppc[p] # "idle"

(* ---------------------------- claims: Filter --------------------------- *)
\* the severity ranks
Rank == [Fatal |-> 0, Critical |-> 1, Error |-> 2, Warning |-> 3,
         Info |-> 4, Debug |-> 5, Noise |-> 6]

\* an entry's metadata, of severity s and domain dom
Entry(s, dom) ==
    [level |-> s, domain |-> dom, instance |-> NoInstance,
     source_location |-> "main.cpp:1", timestamp |-> 0]

\* the override levels a filter holds for a domain
Overrides(f, dom) == {p[2] : p \in MapFind(f.domains, dom)}

\* C6: checkFilter accepts iff the domain has an override and the severity
\* rank is at most the override's, or the domain has none and the rank is at
\* most the default threshold's.
C6_DecisionRule ==
    \A d \in SinkIds, dom \in EntryDomains, s \in Levels :
        checkFilter(filt[d], Entry(s, dom)) <=>
            \/ \E t \in Overrides(filt[d], dom) : Rank[s] <= Rank[t]
            \/ /\ Overrides(filt[d], dom) = {}
               /\ Rank[s] <= Rank[filt[d].default_level]

\* C6 witness: an override stricter than the default rejects what the
\* default accepts in another domain and in an unknown one
C6_Witness ==
    \E d \in Registered :
        /\ Overrides(filt[d], "net") = {"Error"}
        /\ Overrides(filt[d], "db") = {}
        /\ filt[d].default_level = "Debug"
        /\ ~checkFilter(filt[d], Entry("Info", "net"))
        /\ checkFilter(filt[d], Entry("Info", "db"))
        /\ checkFilter(filt[d], Entry("Debug", "ui"))

\* C7: setDomainLogLevel(D, L) makes the acceptance of domain D depend on L
\* and leaves every other domain's acceptance and override, the default
\* threshold and every other destination unchanged.
C7_OverrideIsolation ==
    [][\A name \in SinkNames, D \in Domains, L \in SetLevels :
          SetDomainLogLevel(name, D, L) =>
            LET d == getSink(sinks, name) IN
            /\ \A s \in Levels :
                 checkFilter(filt'[d], Entry(s, D)) <=> Rank[s] <= Rank[L]
            /\ \A D2 \in EntryDomains \ {D}, s \in Levels :
                 checkFilter(filt'[d], Entry(s, D2)) = checkFilter(filt[d], Entry(s, D2))
            /\ \A D2 \in EntryDomains \ {D} :
                 Overrides(filt'[d], D2) = Overrides(filt[d], D2)
            /\ filt'[d].default_level = filt[d].default_level
            /\ \A d2 \in SinkIds \ {d} : filt'[d2] = filt[d2]]_vars

\* C7 witness: after setDomainLogLevel on one of two destinations, the
\* overridden domain is judged by the override, the others by the default
C7_Witness ==
    \E d \in Registered, d2 \in Registered :
        /\ d # d2
        /\ lastOverride[d]["net"] = "Error"
        /\ lastOverride[d]["db"] = Never
        /\ lastDefault[d] = "Debug"
        /\ filt[d2] = NewFilter
        /\ ~checkFilter(filt[d], Entry("Info", "net"))
        /\ checkFilter(filt[d], Entry("Debug", "db"))
        /\ checkFilter(filt[d], Entry("Debug", "ui"))
        /\ checkFilter(filt[d2], Entry("Info", "net"))

\* the threshold the call history gives a domain: the latest
\* setDomainLogLevel not followed by a clear, else the latest default
Expected(d, dom) ==
    IF dom \in Domains /\ lastOverride[d][dom] \in Levels
    THEN lastOverride[d][dom]
    ELSE lastDefault[d]

\* C8: the threshold applied to a domain is the level of the latest
\* setDomainLogLevel for it unless a clearDomainLogLevel came after, and then
\* the level of the latest setDefaultLogLevel (Info if none); clearing a
\* domain that has no override changes nothing.
C8_LastWriterWins ==
    /\ [](\A d \in SinkIds, dom \in EntryDomains, s \in Levels :
            checkFilter(filt[d], Entry(s, dom)) <=> Rank[s] <= Rank[Expected(d, dom)])
    /\ [][\A name \in SinkNames, dom \in Domains :
            (ClearDomainLogLevel(name, dom)
               /\ Overrides(filt[getSink(sinks, name)], dom) = {})
            => filt' = filt]_vars

\* C8 witness: an override was set and cleared, another set twice over, and
\* the default was set
C8_Witness ==
    \E d \in Registered :
        /\ lastOverride[d]["net"] = Cleared
        /\ lastOverride[d]["db"] = "Debug"
        /\ lastDefault[d] = "Error"
        /\ ~checkFilter(filt[d], Entry("Warning", "net"))
        /\ checkFilter(filt[d], Entry("Debug", "db"))

\* C9: if an entry of severity s2 is accepted in a domain, an entry of a
\* severity s1 at least as severe is accepted in that domain too.
C9_Monotone ==
    \A d \in SinkIds, dom \in EntryDomains, s1 \in Levels, s2 \in Levels :
        (Rank[s1] <= Rank[s2] /\ checkFilter(filt[d], Entry(s2, dom)))
            => checkFilter(filt[d], Entry(s1, dom))

\* C9 witness: a threshold strictly inside the scale, under an override
C9_Witness ==
    \E d \in Registered :
        /\ Overrides(filt[d], "db") = {"Error"}
        /\ checkFilter(filt[d], Entry("Error", "db"))
        /\ checkFilter(filt[d], Entry("Fatal", "db"))
        /\ ~checkFilter(filt[d], Entry("Warning", "db"))

(* ---------------------------- claims: Logger --------------------------- *)
\* the registered sinks whose filter accepts the running call's entry
Accepting == {p[2] : p \in {q \in sinks : checkFilter(filt[q[2]], Meta(call))}}

\* C3: a log call that some destination accepts expands the template exactly
\* once, whatever the number of accepting destinations, after the filter
\* evaluation and before the first delivery.
C3_RenderOnce ==
    /\ renders <= 1
    /\ (lpc = "returned" /\ Accepting # {}) => renders = 1
    /\ (\E d \in SinkIds : callLog[d] # <<>>) => renders = 1
    /\ renders = 1 => passed

\* C3 witness: a call returned that two destinations accepted
C3_Witness ==
    /\ lpc = "returned"
    /\ Cardinality(Accepting) = 2
    /\ \A d \in Accepting : Len(callLog[d]) = 1
    /\ renders = 1

\* C4: a log call that no registered destination accepts returns without
\* expanding the template and without invoking any destination's log.
C4_SuppressedNoWork ==
    (lpc = "returned" /\ Accepting = {})
        => /\ renders = 0
           /\ msg = NoMsg
           /\ \A d \in SinkIds : callLog[d] = <<>>

\* C4 witness: a call returned that both registered destinations rejected
C4_Witness ==
    /\ lpc = "returned"
    /\ Cardinality(sinks) = 2
    /\ Accepting = {}
    /\ renders = 0

\* C5: when a log call returns, every registered destination whose filter
\* accepts the entry has received it exactly once, with the metadata and the
\* rendered message, and every other destination has received nothing.
C5_FanOut ==
    lpc = "returned" =>
        \A d \in SinkIds :
            callLog[d] = IF d \in Accepting
                         THEN <<[meta |-> Entry(call.level, call.domain),
                                 msg |-> vformat(call.fmt, call.args)]>>
                         ELSE <<>>

\* C5 witness: of two registered destinations one accepted and one rejected
C5_Witness ==
    /\ lpc = "returned"
    /\ Cardinality(sinks) = 2
    /\ \E d \in Registered :
         /\ Accepting = {d}
         /\ callLog[d] = <<[meta |-> Entry("Warning", "net"),
                            msg |-> <<"disk ", "full">>]>>

\* C10: sink names are unique keys, and after addSink(name, d2) on a
\* registered name getSink(name) returns d2 and log calls deliver to d2.
C10_ReplaceOnReAdd ==
    /\ \A p \in sinks, q \in sinks : p[1] = q[1] => p = q
    /\ \A n \in SinkNames :
         lastAdded[n] # NoSink => getSink(sinks, n) = lastAdded[n]
    /\ lpc = "returned" =>
         \A d \in SinkIds :
            callLog[d] # <<>> => \E n \in SinkNames : lastAdded[n] = d

(* ---------------- claims: DeferredSink, filter and payload -------------- *)
\* the threshold the DeferredSink's call history gives a domain
ExpectedD(dom) ==
    IF dom \in Domains /\ dLastOverride[dom] \in Levels
    THEN dLastOverride[dom]
    ELSE dLastDefault

\* C15: in every state DeferredSink::checkFilter answers as the wrapped
\* destination's filter does, which is as the latest set/clear calls on the
\* DeferredSink say, whatever is waiting in the queue; a set or clear call
\* is in force in the state it leaves and puts nothing in the queue.
C15_ControlPlane ==
    /\ [](\A s \in Levels, dom \in EntryDomains :
            /\ DeferredCheckFilter(Entry(s, dom)) = checkFilter(underlying, Entry(s, dom))
            /\ DeferredCheckFilter(Entry(s, dom)) <=> Rank[s] <= Rank[ExpectedD(dom)])
    /\ [][\A dom \in CallSetDomains, L \in SetLevels :
            /\ DeferredSetDefaultLogLevel(L) =>
                  /\ underlying'.default_level = L
                  /\ <<queue, pushed, delivered>>' = <<queue, pushed, delivered>>
            /\ DeferredSetDomainLogLevel(dom, L) =>
                  /\ \A s \in Levels :
                       checkFilter(underlying', Entry(s, dom)) <=> Rank[s] <= Rank[L]
                  /\ <<queue, pushed, delivered>>' = <<queue, pushed, delivered>>
            /\ DeferredClearDomainLogLevel(dom) =>
                  /\ \A s \in Levels :
                       checkFilter(underlying', Entry(s, dom))
                         <=> Rank[s] <= Rank[underlying.default_level]
                  /\ <<queue, pushed, delivered>>' = <<queue, pushed, delivered>>]_vars

\* C15 witness: two entries wait in the queue while an override stricter
\* than the default, both set through the DeferredSink, decide checkFilter
C15_Witness ==
    /\ Len(queue) >= 2
    /\ dLastOverride["net"] = "Error"
    /\ dLastDefault = "Debug"
    /\ ~DeferredCheckFilter(Entry("Info", "net"))
    /\ DeferredCheckFilter(Entry("Debug", "db"))

\* C16: every entry the worker has forwarded carries the severity, domain,
\* instance, source location, timestamp and message that were passed to the
\* log call that enqueued it, whatever became of the caller's buffers since.
C16_DetachedPayload ==
    \A i \in 1..Len(delivered) :
        LET d == delivered[i]
            g == given[d.seq]
        IN  /\ d.level = g.level
            /\ d.domain = g.domain
            /\ d.instance = g.instance
            /\ d.source_location = g.source_location
            /\ d.timestamp = g.timestamp
            /\ d.message = g.message

\* C16 witness: an entry with an instance was forwarded after its caller had
\* released the buffers, and one without an instance was forwarded too
C16_Witness ==
    /\ \E i \in 1..Len(delivered) :
         /\ delivered[i].seq \in stale
         /\ delivered[i].instance = "i1"
         /\ delivered[i].message = "m2"
    /\ \E i \in 1..Len(delivered) : delivered[i].instance = NoInstance
    /\ caller_storage[Caller] = ReleasedStorage

(* -------------------- claims: DeferredSink, threads -------------------- *)
\* C17: once the destructor has set stop_requested and called notify_one,
\* join eventually returns.
C17_DestructionTerminates == (dpc = "join") ~> (dpc = "destroyed")

\* C18: while the worker executes the wrapped destination's log it does not
\* hold the mutex; it enters cv.wait's blocking only from a predicate
\* evaluation that saw the queue empty and stop_requested false.
C18_NoDeliveryUnderLock ==
    /\ [](wpc = "deliver" => mtx # Worker)
    /\ [][(wpc # "prewait" /\ wpc' = "prewait") =>
            (wpc = "pred" /\ queue = <<>> /\ ~stop_requested /\ mtx = Worker)]_vars
    /\ [][(wpc # "waiting" /\ wpc' = "waiting") =>
            (wpc = "prewait" /\ queue = <<>>)]_vars

\* C18 witness: a producer holds the mutex, about to append, while the
\* worker is delivering an entry
C18_Witness ==
    /\ wpc = "deliver"
    /\ \E p \in Producers : mtx = p /\ ppc[p] = "push"
    /\ Len(queue) >= 1

(* --------------------- claims: Logger, error paths --------------------- *)
\* C11: getSink of a name that is not registered, because it was never
\* added or was removed, gives the caller NotFound; getSink of a registered
\* name gives the sink registered under it; the registry and the sinks'
\* filters are as before the call.
C11_UnknownSinkLookup ==
    /\ [](got # NoGot =>
            \/ got.result = NotFound
            \/ got.result \in SinkIds)
    /\ [][\A name \in SinkNames :
            GetSinkCall(name) =>
              /\ sinks' = sinks
              /\ filt' = filt
              /\ got'.name = name
              /\ MapFind(sinks, name) = {} => got'.result = NotFound
              /\ lastAdded[name] = NoSink => got'.result = NotFound
              /\ \A d \in SinkIds :
                   <<name, d>> \in sinks => got'.result = d]_vars

\* C11 witness: with one sink registered, the lookup of the other name has
\* just failed
C11_Witness ==
    /\ got = [name |-> "file", result |-> NotFound]
    /\ getSink(sinks, "console") \in SinkIds
    /\ MapFind(sinks, "file") = {}
    /\ filt[getSink(sinks, "console")] # NewFilter

\* C19: a failure raised by a sink's log leaves dolog at once: no sink still
\* to be visited has received the call, what the sinks visited before
\* received stays with them, and from there the only thing that happens to
\* the call is that its caller gets the failure.
C19_FailurePropagates ==
    /\ [](failed # NoSink <=> lpc = "thrown")
    /\ [](lpc = "thrown" => \A p \in todo : callLog[p[2]] = <<>>)
    /\ [][lpc = "deliver" /\ lpc' = "thrown" => callLog' = callLog]_vars
    /\ [][lpc = "thrown" =>
            /\ lpc' \in {"thrown", "idle"}
            /\ lpc' = "thrown" => callLog' = callLog /\ todo' = todo]_vars

\* C19 witness: a sink failed while another sink that accepts the entry was
\* still to be visited, and it has received nothing
C19_Witness ==
    /\ lpc = "thrown"
    /\ \E p \in todo :
         /\ p[2] # failed
         /\ checkFilter(filt[p[2]], Meta(call))
         /\ callLog[p[2]] = <<>>

(* -------------------- claims: FormattedStringSink ---------------------- *)
\* the directive characters formatEntry's switch names
Recognized ==
    {"%", "n", "y", "Y", "b", "B", "m", "d", "e", "a", "A", "H", "M", "S",
     "F", "f", "l", "c", "D", "I", "L", "x", "R", "C", "Q"}

\* the 16 color sub-codes and the escape sequences
ColorCodes ==
    {"x", "r", "g", "y", "b", "m", "c", "w", "X", "R", "G", "Y", "B", "M", "C", "W"}
AnsiEscapes ==
    {"ESC[30m", "ESC[31m", "ESC[32m", "ESC[33m", "ESC[34m", "ESC[35m", "ESC[36m",
     "ESC[37m", "ESC[90m", "ESC[91m", "ESC[92m", "ESC[93m", "ESC[94m", "ESC[95m",
     "ESC[96m", "ESC[97m", "ESC[40m", "ESC[41m", "ESC[42m", "ESC[43m", "ESC[44m",
     "ESC[45m", "ESC[46m", "ESC[47m", "ESC[100m", "ESC[101m", "ESC[102m",
     "ESC[103m", "ESC[104m", "ESC[105m", "ESC[106m", "ESC[107m"}

\* the scan stands on a '%' that is the template's last character
AtTrailingPercent ==
    /\ rpc = "scan"
    /\ rs = Len(rfmt) - 1
    /\ At(rfmt, rs) = "%"

\* the scan stands on a '%' followed by the character fc
AtDirective(fc) ==
    /\ rpc = "scan"
    /\ rs < Len(rfmt) - 1
    /\ At(rfmt, rs) = "%"
    /\ At(rfmt, rs + 1) = fc

\* C12: from a '%' that is the last character of the template, the scan
\* copies the '%' to the output and is past the end of the template.
C12_TrailingPercent ==
    [][AtTrailingPercent => (rout' = Append(rout, "%") /\ rs' = Len(rfmt))]_vars

\* C13: a '%' followed by a character that is no directive appends nothing,
\* moves the scan by exactly two characters and leaves it running; the
\* template a%Zb renders to ab.
C13_UnknownDropped ==
    /\ [][\A fc \in {"a", "Z", "z", "[", " "} :
            (AtDirective(fc) /\ fc \notin Recognized /\ iters' # iters) =>
               /\ rout' = rout
               /\ rs' = rs + 2
               /\ rpc' = "scan"]_vars
    /\ []((rpc = "done" /\ rfmt = <<"a", "%", "Z", "b">>) => rout = <<"a", "b">>)

\* C13 witness: a%Zb has been rendered
C13_Witness ==
    /\ rpc = "done"
    /\ rfmt = <<"a", "%", "Z", "b">>
    /\ rout = <<"a", "b">>
    /\ iters = 3

\* C14: the template %x renders a message without '%' to the message.
C14_MessageRoundTrip ==
    (rpc = "done" /\ rfmt = <<"%", "x">> /\ \A i \in 1..Len(rmsg) : rmsg[i] # "%")
        => rout = rmsg

\* C14 witness: %x has rendered a message of several words
C14_Witness ==
    /\ rpc = "done"
    /\ rfmt = <<"%", "x">>
    /\ rmsg = <<"h", "i", " ", "u">>
    /\ rout = rmsg

\* C20: %C or %Q followed by a character that is no color sub-code appends
\* nothing, followed by a sub-code appends one escape sequence, and either
\* way the scan moves by three characters; a%Czb renders to ab.
C20_ColorSubcode ==
    /\ [][\A fc \in {"C", "Q"} :
            (AtDirective(fc) /\ rs < Len(rfmt) - 2 /\ iters' # iters) =>
               /\ rs' = rs + 3
               /\ IF At(rfmt, rs + 2) \in ColorCodes
                  THEN \E esc \in AnsiEscapes : rout' = Append(rout, esc)
                  ELSE rout' = rout]_vars
    /\ []((rpc = "done" /\ rfmt = <<"a", "%", "C", "z", "b">>) => rout = <<"a", "b">>)
    /\ []((rpc = "done" /\ rfmt = <<"a", "%", "Q", "z", "b">>) => rout = <<"a", "b">>)

\* C20 witness: a%Czb has been rendered
C20_Witness ==
    /\ rpc = "done"
    /\ rfmt = <<"a", "%", "C", "z", "b">>
    /\ rout = <<"a", "b">>
    /\ iters = 3

(* ------------------ claims: DeferredSink, delivery --------------------- *)
\* C21: while stop is never requested, the n-th entry appended to the queue
\* is eventually forwarded to the wrapped destination, for every n.
C21_EventualDelivery ==
    \A n \in 1..(MaxLogCalls + 1) :
        (Len(pushed) >= n) ~> (Len(delivered) >= n /\ delivered[n] = pushed[n])

\* C21 witness: the worker has delivered an entry, has blocked on the empty
\* queue since, and has been woken with a new entry in the queue
C21_Witness ==
    /\ ~stop_requested
    /\ Len(delivered) >= 1
    /\ Len(queue) >= 1
    /\ Len(pushed) > Len(delivered)
    /\ wpc = "woken"
    /\ \A p \in Producers : ppc[p] = "idle"

\* the seqs of the entries in a sequence of entries
Seqs(q) == {q[i].seq : i \in 1..Len(q)}

\* C22: no entry is forwarded twice; from the moment the worker reads the
\* head until it pops, that entry stays the head of the queue; the pop
\* removes the entry just delivered and no other.
C22_AtMostOnce ==
    /\ [](\A i \in 1..Len(delivered), j \in 1..Len(delivered) :
            delivered[i].seq = delivered[j].seq => i = j)
    /\ [](wpc \in {"deliver", "relock", "pop"} =>
            queue # <<>> /\ QueueFront(queue).seq = entry)
    /\ [](wpc \in {"relock", "pop"} =>
            delivered # <<>> /\ delivered[Len(delivered)].seq = entry)
    /\ [][(wpc = "pop" /\ wpc' # "pop") =>
            /\ entry \notin Seqs(queue')
            /\ Seqs(queue') = Seqs(queue) \ {entry}
            /\ Len(queue') = Len(queue) - 1]_vars

\* C22 witness: the worker is about to pop the entry it delivered, and a
\* producer that appended behind it has not yet notified
C22_Witness ==
    /\ wpc = "pop"
    /\ Len(queue) >= 2
    /\ QueueFront(queue).seq = entry
    /\ \E p \in Producers :
         /\ ppc[p] = "notify"
         /\ queue[Len(queue)] = dle[p]

(* ----------------- claims: FormattedStringSink, scan ------------------- *)
\* C23: every iteration of the scan loop moves the position forward, and
\* the loop runs at most one iteration per character of the template.
C23_ScanTerminates ==
    /\ [][(rpc = "scan" /\ iters' = iters + 1) => rs' > rs]_vars
    /\ [](iters <= Len(rfmt))

====
